---- MODULE Spec2Model ----
(***************************************************************************)
(* Model of F1DataCache (src/src/cache.py), the background polling cache   *)
(* of the f1cal dashboard, together with its callers: the polling thread   *)
(* started by the constructor and the request threads of the Flask server  *)
(* (src/src/display/__init__.py, app.run(threaded=True)).                  *)
(*                                                                         *)
(* The cache takes no lock anywhere, so every read or write of a field of  *)
(* the cache object or of the disk is one step of the calling thread and   *)
(* steps of different threads interleave freely.                           *)
(***************************************************************************)
EXTENDS Integers, FiniteSets, Sequences, TLC

(***************************************************************************)
(* Bounds of the model.                                                    *)
(***************************************************************************)
\* request threads of the web server; thread 0 is the polling thread
NumWorkers == 1
\* the clock stops advancing at MaxTime
MaxTime == 1
\* poll_interval, in clock ticks (constructor argument poll_interval_hours)
PollInterval == 1
\* API calls the request threads make in all
MaxCalls == 1

Sched == 0
Workers == 1..NumWorkers
Threads == 0..NumWorkers
Times == 0..MaxTime

(***************************************************************************)
(* Values.  None is Python's None; Missing stands for a key that a dict    *)
(* does not have.                                                          *)
(***************************************************************************)
None == "None"
Missing == "MISSING"

EmptyStandings == "noStandings"

(***************************************************************************)
(* F1DataFetcher.  Each of its three methods wraps its whole body in       *)
(* try/except Exception and returns a fallback (None, or empty standings)  *)
(* when fastf1 fails inside it; an exception reaches fetch_fresh_data only *)
(* when it escapes that handler (the handler itself prints) or when        *)
(* data_fetcher is another object.  An outcome is the value handed to the  *)
(* caller, whether fastf1 failed inside the call, and whether the call     *)
(* raised.  The cache never looks into the values, so one event and one    *)
(* standings value stand for what fastf1 delivers.                         *)
(*                                                                         *)
(* The provider's condition is fixed for a run: "ok" (every call returns   *)
(* its value), "down1", "down2", "down3" (fastf1 fails inside the first,   *)
(* second, third call), or "raises" (any call may raise).                  *)
(***************************************************************************)
Providers == {"ok", "down1", "down2", "down3", "raises"}
Outcome(v, e, r) == [value |-> v, neterr |-> e, raised |-> r]
Raised == Outcome(None, FALSE, TRUE)
MayRaise(p) == IF p = "raises" THEN {Raised} ELSE {}

\* src/src/data/__init__.py lines 22-97
get_next_event(p) ==
    {IF p = "down1" THEN Outcome(None, TRUE, FALSE) ELSE Outcome("evA", FALSE, FALSE)}
        \cup MayRaise(p)

\* src/src/data/__init__.py lines 144-239
get_current_standings(p) ==
    {IF p = "down2" THEN Outcome(EmptyStandings, TRUE, FALSE)
                    ELSE Outcome("top3", FALSE, FALSE)}
        \cup MayRaise(p)

\* src/src/data/__init__.py lines 241-306
get_event_after_next(p) ==
    {IF p = "down3" THEN Outcome(None, TRUE, FALSE) ELSE Outcome("evB", FALSE, FALSE)}
        \cup MayRaise(p)

(***************************************************************************)
(* Timestamps and their text forms.  A datetime object, Python's None, a   *)
(* missing key and the strings that stand for a datetime are all records   *)
(* with a form.  datetime.isoformat() separates date and time with "T",    *)
(* str(datetime) (json.dump's default=str) with a blank;                   *)
(* datetime.fromisoformat reads both and raises on anything else.          *)
(***************************************************************************)
DT(t) == [form |-> "datetime", ticks |-> t]
NoneDT == [form |-> "none", ticks |-> 0]
MissingDT == [form |-> "missing", ticks |-> 0]
BadTimeString == [form |-> "badstr", ticks |-> 0]
\* the string ""
EmptyTimeString == [form |-> "emptystr", ticks |-> 0]
isoformat(d) == [form |-> "isostr", ticks |-> d.ticks]
str(d) == [form |-> "str", ticks |-> d.ticks]
IsStr(x) == x.form \in {"isostr", "str", "badstr", "emptystr"}
\* what Python's "if x:" takes as false
Falsy(x) == x.form \in {"none", "missing", "emptystr"}
FromIsoOk(s) == s.form \in {"isostr", "str"}
fromisoformat(s) == DT(s.ticks)

(***************************************************************************)
(* Dicts: the snapshot built by fetch_fresh_data and what get_data         *)
(* returns.  kind tells a dict from None; a key the dict lacks holds       *)
(* Missing (MissingDT, NoDuration).                                        *)
(***************************************************************************)
NoDuration == -1

Dict(ne, st, ean, lu, dur, err) ==
    [kind |-> "dict", next_event |-> ne, standings |-> st,
     event_after_next |-> ean, last_updated |-> lu,
     fetch_duration_minutes |-> dur, error |-> err]

NoneDict == [Dict(None, None, None, NoneDT, NoDuration, Missing) EXCEPT !.kind = "none"]

\* a dict in the hands of a caller of get_data: alias tells whether it is the
\* very object that cached_data held when it was handed out, so that a write to
\* it is a write to the cached dict
Returned(d, a) ==
    [kind |-> d.kind, next_event |-> d.next_event, standings |-> d.standings,
     event_after_next |-> d.event_after_next, last_updated |-> d.last_updated,
     fetch_duration_minutes |-> d.fetch_duration_minutes, error |-> d.error,
     alias |-> a]

\* a get_data that hands out the cached dict itself
no_copy(d) == Returned(d, TRUE)

\* dict.copy(), line 164: a new dict with the entries of d
copy(d) == Returned(d, FALSE)

\* json.dump(..., default=str): the datetime in the dict is written as str
Serialize(d) ==
    IF d.last_updated.form = "datetime"
    THEN [d EXCEPT !.last_updated = str(d.last_updated)]
    ELSE d

(***************************************************************************)
(* Files.  A file is absent, or partial (empty, truncated, or otherwise    *)
(* not a JSON document), or a complete JSON object {data, last_update}.    *)
(***************************************************************************)
File(k, d, lu) == [kind |-> k, data |-> d, last_update |-> lu]
Absent == File("absent", NoneDict, NoneDT)
PartialFile == File("partial", NoneDict, NoneDT)
CompleteFile(d, lu) == File("complete", d, lu)
IsComplete(f) == f.kind = "complete"

\* F1DataCache.load_cache: the values of cached_data and last_update it leaves
Loaded(cd, lu) == [cached_data |-> cd, last_update |-> lu]
load_cache(f) ==
    IF f.kind # "complete" THEN Loaded(NoneDict, NoneDT)
    ELSE LET cd == f.data
             ls == f.last_update
             luBad == ~Falsy(ls) /\ ~FromIsoOk(ls)
             conv == cd.kind = "dict" /\ IsStr(cd.last_updated)
             cdBad == conv /\ ~FromIsoOk(cd.last_updated)
         IN  IF luBad \/ cdBad THEN Loaded(NoneDict, NoneDT)
             ELSE Loaded(IF conv
                         THEN [cd EXCEPT !.last_updated = fromisoformat(cd.last_updated)]
                         ELSE cd,
                         IF Falsy(ls) THEN NoneDT ELSE fromisoformat(ls))

\* the snapshot an earlier run of the program left on disk
OldSnapshot == Dict("evA", "top3", None, DT(0), 0, Missing)

\* what the constructor can find at cache_file
InitialFiles ==
    { Absent,
      PartialFile,
      CompleteFile(Serialize(OldSnapshot), isoformat(DT(0))),
      CompleteFile(Serialize(OldSnapshot), BadTimeString),
      CompleteFile(Serialize(OldSnapshot), MissingDT),
      CompleteFile(Serialize(OldSnapshot), EmptyTimeString),
      CompleteFile([OldSnapshot EXCEPT !.last_updated = BadTimeString], isoformat(DT(0))),
      CompleteFile(NoneDict, isoformat(DT(0))),
      CompleteFile([OldSnapshot EXCEPT !.last_updated = MissingDT], isoformat(DT(0))),
      CompleteFile([Serialize(OldSnapshot) EXCEPT !.next_event = Missing], isoformat(DT(0))) }

VARIABLES
    cached_data,         \* self.cached_data: None or a snapshot
    last_update,         \* self.last_update: None or a datetime
    update_in_progress,  \* self.update_in_progress
    stop_polling,        \* self.stop_polling
    cache_file,          \* the file at self.cache_file
    temp_file,           \* the file at self.cache_file + ".tmp"
    fd,                  \* the file each thread's open file object f writes to
    now,                 \* the clock read by datetime.now()
    provider,            \* the provider's condition in this run
    calls,               \* API calls made so far by the request threads
    pc,                  \* where each thread is
    slice,               \* _polling_loop: iterations of the sleep loop done in this pass
    op,                  \* the public operation each thread is in
    fresh,               \* fetch_fresh_data's data, update_data's fresh_data
    start_time,          \* update_data's local start_time
    content,             \* save_cache's local cache_content
    ret,                 \* what get_data returns to the thread
    before,              \* history: cached_data, last_update when the thread entered update_data
    file_before,         \* history: cache_file when the thread's save_cache began
    outcome,             \* history: how the update_data of the thread's operation went
    first_call_ok,       \* history: some get_next_event call has returned without raising
    whole,               \* history: the snapshot last loaded or assembled and committed
    slept,               \* history: sleeps the polling thread ended with stop_polling set
    overwritten,         \* history: the last_updated a caller last wrote into the dict it got
    saves,               \* history: this run has put a file at cache_file; a save has
                         \* failed since cached_data was last assigned
    st                   \* the fetcher's call of get_current_standings

fields == <<cached_data, last_update, update_in_progress, stop_polling>>
disk == <<cache_file, temp_file, fd>>
env == <<now, provider, calls>>
locals == <<fresh, start_time, content, slice>>
history == <<before, file_before, outcome, first_call_ok, whole, slept, overwritten, saves>>

cache_vars == <<fields, disk, env, pc, op, locals, ret, history>>

vars == <<cache_vars, st>>

(***************************************************************************)
(* F1DataFetcher.get_current_standings, src/src/data/__init__.py lines     *)
(* 144-239, as a computation of its own: st holds one call, from the       *)
(* season it finds (the schedule and the results of the completed races)   *)
(* to the dict it returns.  Points are counted in halves, so that 12.5 is  *)
(* 25.                                                                     *)
(***************************************************************************)
\* completed races of the season a call finds
MaxRaces == 2

Drivers == {"A", "B", "C", "D", "E"}

\* the team a driver's result rows carry
TeamName(d) ==
    IF d \in {"A", "B"} THEN "T1"
    ELSE IF d = "C" THEN "T2"
    ELSE IF d = "D" THEN "T3"
    ELSE "T4"

\* a Points entry that pd.notna rejects
NaN == -1

\* points by finishing position: a full scale whose last rows score nothing or
\* carry no number, and a scale of half points
FullPoints == <<50, 36, 30, 0, NaN>>
HalfPoints == <<25, 18, 15, 12, 10>>

\* the finishing orders
Classifications ==
    {f \in [1..5 -> Drivers] : \A i, j \in 1..5 : f[i] = f[j] => i = j}

\* one row of session.results
Row(d, p) == [FullName |-> d, TeamName |-> TeamName(d), Points |-> p]

\* session.results of a race, lines 180-185: the rows in finishing order; a
\* race whose get_session or load raises; a race with an empty table
Results(f, sc) ==
    <<Row(f[1], sc[1]), Row(f[2], sc[2]), Row(f[3], sc[3]), Row(f[4], sc[4]),
      Row(f[5], sc[5])>>
LoadFails == [loaded |-> FALSE, results |-> <<>>]
LoadedRace(r) == [loaded |-> TRUE, results |-> r]
CompletedRaces ==
    {LoadFails, LoadedRace(<<>>)}
        \cup {LoadedRace(Results(f, sc)) : f \in Classifications,
                                           sc \in {FullPoints, HalfPoints}}

\* the seasons a call can find: up to MaxRaces completed races
Seasons == UNION {[1..n -> CompletedRaces] : n \in 0..MaxRaces}

\* no call
NoCall ==
    [phase |-> "idle", schedule |-> "ok", completed_races |-> <<>>, round |-> 0,
     driver_points |-> <<>>, constructor_points |-> <<>>,
     drivers |-> <<>>, constructors |-> <<>>]

\* a call that is about to fetch the schedule
Call(schedule, races) ==
    [NoCall EXCEPT !.phase = "call", !.schedule = schedule, !.completed_races = races]

\* line 192
pd_notna(p) == p # NaN

\* lines 195-204: the dict entry of name grows by p, or is made; the dict keeps
\* its entries in the order they were made
add_points(points, name, p) ==
    IF \E k \in 1..Len(points) : points[k].name = name
    THEN [k \in 1..Len(points) |->
             IF points[k].name = name
             THEN [points[k] EXCEPT !.points = @ + p]
             ELSE points[k]]
    ELSE Append(points, [name |-> name, points |-> p])

\* lines 189-204, for one of the two dicts: every row of the table is added
RECURSIVE sum_points(_, _, _)
sum_points(points, results, key) ==
    IF results = <<>> THEN points
    ELSE LET result == Head(results)
             race_points == IF pd_notna(result.Points) THEN result.Points ELSE 0
         IN  sum_points(add_points(points, result[key], race_points), Tail(results), key)

\* the place of e, which stood before every entry of s, in the sorted list
RECURSIVE insert_reverse(_, _)
insert_reverse(e, s) ==
    IF s = <<>> THEN <<e>>
    ELSE IF Head(s).points <= e.points THEN <<e>> \o s
    ELSE <<Head(s)>> \o insert_reverse(e, Tail(s))

\* a sort without reverse=True: the totals rise
sorted_rising(items) ==
    LET RECURSIVE srt(_)
        srt(s) == IF s = <<>> THEN <<>> ELSE insert_reverse(Head(s), srt(Tail(s)))
        r == srt(items)
    IN  [k \in 1..Len(r) |-> r[Len(r) + 1 - k]]

\* lines 215 and 223: sorted(..., key=points, reverse=True), which keeps entries
\* of equal points in the order of the dict
RECURSIVE sorted_reverse(_)
sorted_reverse(items) ==
    IF items = <<>> THEN <<>>
    ELSE insert_reverse(Head(items), sorted_reverse(Tail(items)))

\* int(points) of a number counted in halves
int(p) == p \div 2

\* lines 216-220 and 224-228: the first three, with their points made integers
standings_of(points) ==
    LET s == sorted_reverse(points)
        n == IF Len(s) < 3 THEN Len(s) ELSE 3
    IN  [k \in 1..n |-> [name |-> s[k].name, points |-> int(s[k].points)]]

(***************************************************************************)
(* F1DataCache.__init__: the fields are set, load_cache runs, and the      *)
(* polling thread is started.                                              *)
(***************************************************************************)
NoBefore == Loaded(NoneDict, NoneDT)

InitCache ==
    /\ cache_file \in InitialFiles
    /\ temp_file = Absent
    /\ fd = [t \in Threads |-> "closed"]
    /\ cached_data = load_cache(cache_file).cached_data
    /\ last_update = load_cache(cache_file).last_update
    /\ update_in_progress = FALSE
    /\ stop_polling = FALSE
    /\ now = 0
    /\ provider \in Providers
    /\ calls = 0
    /\ pc = [t \in Threads |-> IF t = Sched THEN "grace" ELSE "idle"]
    /\ op = [t \in Threads |-> IF t = Sched THEN "sched" ELSE "none"]
    /\ fresh = [t \in Threads |-> NoneDict]
    /\ start_time = [t \in Threads |-> 0]
    /\ content = [t \in Threads |-> Absent]
    /\ ret = [t \in Threads |-> Returned(NoneDict, FALSE)]
    /\ before = [t \in Threads |-> NoBefore]
    /\ file_before = [t \in Threads |-> Absent]
    /\ outcome = [t \in Threads |-> "none"]
    /\ first_call_ok = FALSE
    /\ whole = cached_data
    /\ slice = 0
    /\ slept = 0
    /\ overwritten = NoneDT
    /\ saves = [written |-> FALSE, failed |-> FALSE]

\* the cache after construction, and no call of the fetcher under way
Init ==
    /\ InitCache
    /\ st = NoCall

\* time passes
Tick ==
    /\ now < MaxTime
    /\ now' = now + 1
    /\ UNCHANGED <<fields, disk, provider, st, calls, pc, op, locals, ret, history>>

Goto(t, l) == pc' = [pc EXCEPT ![t] = l]

\* where a thread continues when update_data returns
AfterUpdate(t) ==
    IF op[t] = "get_data" THEN "gd_check"
    ELSE IF op[t] = "sched" THEN "sleep"
    ELSE "idle"

\* the operation the thread is in when update_data has returned: force_update
\* returns with it
AfterUpdateOp(t) == IF op[t] = "force_update" THEN "none" ELSE op[t]

\* the history of a call is kept until the operation that made the call is over
Outcome_(t, o) == IF op[t] = "get_data" THEN o ELSE "none"

(***************************************************************************)
(* update_data                                                             *)
(***************************************************************************)
\* an early return that passes through the finally clause and clears the flag
UpdateCheckClearing(t) ==
    /\ pc[t] = "ud_check"
    /\ IF update_in_progress
       THEN /\ Goto(t, AfterUpdate(t))
            /\ op' = [op EXCEPT ![t] = AfterUpdateOp(t)]
            /\ outcome' = [outcome EXCEPT ![t] = Outcome_(t, "skipped")]
            /\ before' = before
            /\ update_in_progress' = FALSE
       ELSE /\ Goto(t, "ud_set")
            /\ op' = op
            /\ outcome' = outcome
            /\ before' = [before EXCEPT ![t] = Loaded(cached_data, last_update)]
            /\ update_in_progress' = update_in_progress
    /\ UNCHANGED <<cached_data, last_update, stop_polling, disk, env, st, locals, ret,
                   file_before, first_call_ok, whole, slept, overwritten, saves>>

\* line 117: the test of update_in_progress, with the early return
UpdateCheck(t) ==
    /\ pc[t] = "ud_check"
    /\ IF update_in_progress
       THEN /\ Goto(t, AfterUpdate(t))
            /\ op' = [op EXCEPT ![t] = AfterUpdateOp(t)]
            /\ outcome' = [outcome EXCEPT ![t] = Outcome_(t, "skipped")]
            /\ before' = before
       ELSE /\ Goto(t, "ud_set")
            /\ op' = op
            /\ outcome' = outcome
            /\ before' = [before EXCEPT ![t] = Loaded(cached_data, last_update)]
    /\ UNCHANGED <<fields, disk, env, st, locals, ret, file_before, first_call_ok, whole, slept, overwritten, saves>>

\* lines 122-123: the flag is set and the start time taken
UpdateSet(t) ==
    /\ pc[t] = "ud_set"
    /\ update_in_progress' = TRUE
    /\ start_time' = [start_time EXCEPT ![t] = now]
    /\ Goto(t, "f1")
    /\ UNCHANGED <<cached_data, last_update, stop_polling, disk, env, st, op, fresh,
                   content, ret, history, slice>>

\* a first provider call followed at once by the second
FetchNextEventUnpaced(t) ==
    /\ pc[t] = "f1"
    /\ \E o \in get_next_event(provider) :
        /\ Goto(t, IF o.raised THEN "ud_fail" ELSE "f2")
        /\ fresh' = [fresh EXCEPT ![t] = [NoneDict EXCEPT !.next_event = o.value]]
        /\ first_call_ok' = (first_call_ok \/ ~o.raised)
    /\ UNCHANGED <<fields, disk, env, st, op, start_time, content, ret,
                   before, file_before, outcome, whole, slice, slept, overwritten, saves>>

\* fetch_fresh_data, line 87
FetchNextEvent(t) ==
    /\ pc[t] = "f1"
    /\ \E o \in get_next_event(provider) :
        /\ Goto(t, IF o.raised THEN "ud_fail" ELSE "pause1")
        /\ fresh' = [fresh EXCEPT ![t] = [NoneDict EXCEPT !.next_event = o.value]]
        /\ first_call_ok' = (first_call_ok \/ ~o.raised)
    /\ UNCHANGED <<fields, disk, env, st, op, start_time, content, ret,
                   before, file_before, outcome, whole, slice, slept, overwritten, saves>>

\* fetch_fresh_data, lines 90 and 95: time.sleep(2) between two provider calls
Pace(t) ==
    /\ pc[t] \in {"pause1", "pause2"}
    /\ Goto(t, IF pc[t] = "pause1" THEN "f2" ELSE "f3")
    /\ UNCHANGED <<fields, disk, env, st, op, locals, ret, history>>

\* fetch_fresh_data, line 93
FetchStandings(t) ==
    /\ pc[t] = "f2"
    /\ \E o \in get_current_standings(provider) :
        /\ Goto(t, IF o.raised THEN "ud_fail" ELSE "pause2")
        /\ fresh' = [fresh EXCEPT ![t] = IF o.raised THEN NoneDict
                                         ELSE [@ EXCEPT !.standings = o.value]]
    /\ UNCHANGED <<fields, disk, env, st, op, start_time, content, ret, history, slice>>

\* fetch_fresh_data, lines 98-109: the third call, then the dict is built
FetchEventAfterNext(t) ==
    /\ pc[t] = "f3"
    /\ \E o \in get_event_after_next(provider) :
        /\ Goto(t, IF o.raised THEN "ud_fail" ELSE "commit")
        /\ fresh' = [fresh EXCEPT ![t] =
                        IF o.raised THEN NoneDict
                        ELSE Dict(@.next_event, @.standings, o.value,
                                  DT(now), NoDuration, Missing)]
    /\ UNCHANGED <<fields, disk, env, st, op, start_time, content, ret, history, slice>>

\* a refresh that updates the dict it finds in place, field after field
PublishInPlace(cur, new) ==
    IF cur.kind = "dict"
    THEN [cur EXCEPT !.next_event = new.next_event, !.last_updated = new.last_updated]
    ELSE new

\* a refresh that never assigns the new dict
PublishNothing(cur, new) == cur

\* line 132: self.cached_data = fresh_data rebinds the field to the new dict
Publish(cur, new) == new

\* lines 128-132: the duration is stored in the new dict, then the dict is published
Commit(t) ==
    /\ pc[t] = "commit"
    /\ LET d == [fresh[t] EXCEPT !.fetch_duration_minutes = now - start_time[t]]
       IN  /\ fresh' = [fresh EXCEPT ![t] = d]
           /\ cached_data' = Publish(cached_data, d)
           /\ whole' = d
    /\ ret' = [u \in Threads |-> [ret[u] EXCEPT !.alias = FALSE]]
    /\ before' = [before EXCEPT ![t] = NoBefore]
    /\ outcome' = [outcome EXCEPT ![t] = Outcome_(t, "refreshed")]
    /\ saves' = [saves EXCEPT !.failed = FALSE]
    /\ Goto(t, "commit_time")
    /\ UNCHANGED <<last_update, update_in_progress, stop_polling, disk, env, st, op, start_time,
                   content, file_before, first_call_ok, slice, slept, overwritten>>

\* a refresh that leaves the saving out
CommitTimeNoSave(t) ==
    /\ pc[t] = "commit_time"
    /\ last_update' = DT(now)
    /\ Goto(t, "ud_done")
    /\ UNCHANGED <<cached_data, update_in_progress, stop_polling, disk, env, st, op,
                   locals, ret, history>>

\* a refresh that stamps last_update with the time it started at
CommitTimeAtStart(t) ==
    /\ pc[t] = "commit_time"
    /\ last_update' = DT(start_time[t])
    /\ Goto(t, "s_open")
    /\ UNCHANGED <<cached_data, update_in_progress, stop_polling, disk, env, st, op,
                   locals, ret, history>>

\* line 133
CommitTime(t) ==
    /\ pc[t] = "commit_time"
    /\ last_update' = DT(now)
    /\ Goto(t, "s_open")
    /\ UNCHANGED <<cached_data, update_in_progress, stop_polling, disk, env, st, op,
                   locals, ret, history>>

(***************************************************************************)
(* save_cache(fresh_data), called from update_data line 136.  Every        *)
(* failure is caught at line 77 and only logged.                           *)
(***************************************************************************)
\* lines 64-67: the document save_cache writes
cache_content(data, t) == CompleteFile(Serialize(data), isoformat(DT(t)))

\* line 74: the path os.rename moves the temporary file to
RenameTarget(target, temp) == temp

\* lines 64-71: the document is built, then open(temp_file, 'w') creates or
\* truncates the temporary file, or fails
SaveOpen(t) ==
    /\ pc[t] = "s_open"
    /\ content' = [content EXCEPT ![t] = cache_content(fresh[t], now)]
    /\ fresh' = [fresh EXCEPT ![t] = NoneDict]
    /\ \/ /\ temp_file' = PartialFile
          /\ fd' = [fd EXCEPT ![t] = "temp"]
          /\ Goto(t, "s_write")
       \/ /\ UNCHANGED <<temp_file, fd>>
          /\ Goto(t, "s_except")
    /\ file_before' = [file_before EXCEPT ![t] = cache_file]
    /\ UNCHANGED <<fields, cache_file, env, st, op, start_time, ret, before, outcome,
                   first_call_ok, whole, slice, slept, overwritten, saves>>

\* the file an open file object writes to: the object keeps the file it opened
\* when os.rename moves that file to the cache path ("target") or replaces it
\* there ("orphan")
FileAt(where) ==
    IF where = "temp" THEN temp_file
    ELSE IF where = "target" THEN cache_file
    ELSE Absent

\* what a write of doc from the start of the file leaves in it: doc, or, when
\* another writer has put text into the file since it was truncated, possibly
\* doc followed by the rest of that text
Written(old, doc) == IF old \in {PartialFile, Absent} THEN {doc} ELSE {doc, PartialFile}

\* line 72 and the end of the with block: the document is written and the file
\* closed, or the write fails part of the way
SaveWrite(t) ==
    /\ pc[t] = "s_write"
    /\ \E res \in {"s_rename", "s_except"} :
       \E doc \in IF res = "s_rename" THEN Written(FileAt(fd[t]), content[t])
                                      ELSE {PartialFile} :
          /\ temp_file' = IF fd[t] = "temp" THEN doc ELSE temp_file
          /\ cache_file' = IF fd[t] = "target" THEN doc ELSE cache_file
          /\ Goto(t, res)
    /\ fd' = [fd EXCEPT ![t] = "closed"]
    /\ content' = [content EXCEPT ![t] = Absent]
    /\ UNCHANGED <<fields, env, st, op, fresh, start_time, ret, history, slice>>

\* line 74: os.rename(temp_file, self.cache_file) moves the temporary file over
\* the cache file, or fails (always when there is no temporary file)
SaveRename(t) ==
    /\ pc[t] = "s_rename"
    /\ \/ /\ temp_file # Absent
          /\ cache_file' = RenameTarget(cache_file, temp_file)
          /\ temp_file' = Absent
          /\ fd' = [u \in Threads |-> IF fd[u] = "temp" THEN "target"
                                      ELSE IF fd[u] = "target" THEN "orphan"
                                      ELSE fd[u]]
          /\ file_before' = [file_before EXCEPT ![t] = Absent]
          /\ saves' = [saves EXCEPT !.written = TRUE]
          /\ Goto(t, "ud_done")
       \/ /\ UNCHANGED <<disk, file_before, saves>>
          /\ Goto(t, "s_except")
    /\ UNCHANGED <<fields, env, st, op, locals, ret, before, outcome, first_call_ok, whole, slept, overwritten>>

\* a failed save that undoes the refresh
SaveExceptClears(t) ==
    /\ pc[t] = "s_except"
    /\ cached_data' = NoneDict
    /\ last_update' = NoneDT
    /\ file_before' = [file_before EXCEPT ![t] = Absent]
    /\ saves' = [saves EXCEPT !.failed = TRUE]
    /\ Goto(t, "ud_unsaved")
    /\ UNCHANGED <<update_in_progress, stop_polling, disk, env, st, op, locals, ret, before,
                   outcome, first_call_ok, whole, slept, overwritten>>

\* lines 77-78: the failure is logged and save_cache returns to update_data, which
\* goes on at line 138
SaveExcept(t) ==
    /\ pc[t] = "s_except"
    /\ file_before' = [file_before EXCEPT ![t] = Absent]
    /\ saves' = [saves EXCEPT !.failed = TRUE]
    /\ Goto(t, "ud_unsaved")
    /\ UNCHANGED <<fields, disk, env, st, op, locals, ret, before, outcome,
                   first_call_ok, whole, slept, overwritten>>

\* an except clause that drops the cached data
AfterFailureClears(cur) == NoneDict

\* after a failure, lines 140-141: what the except clause leaves in cached_data
AfterFailure(cur) == cur

\* an update_data without the except clause: the exception goes on to the caller
UpdateFinallyReraising(t) ==
    /\ pc[t] \in {"ud_done", "ud_unsaved", "ud_fail"}
    /\ update_in_progress' = FALSE
    /\ cached_data' = cached_data
    /\ outcome' = [outcome EXCEPT ![t] =
                      IF pc[t] = "ud_fail" THEN Outcome_(t, "failed") ELSE Outcome_(t, @)]
    /\ Goto(t, IF pc[t] = "ud_fail" THEN "raised" ELSE AfterUpdate(t))
    /\ op' = [op EXCEPT ![t] = AfterUpdateOp(t)]
    /\ fresh' = [fresh EXCEPT ![t] = NoneDict]
    /\ start_time' = [start_time EXCEPT ![t] = 0]
    /\ before' = [before EXCEPT ![t] = NoBefore]
    /\ UNCHANGED <<last_update, stop_polling, disk, env, st, content, ret,
                   file_before, first_call_ok, whole, slice, slept, overwritten, saves>>

\* an update_data that takes the time of a failed attempt as last_update
UpdateFinallyStamping(t) ==
    /\ pc[t] \in {"ud_done", "ud_unsaved", "ud_fail"}
    /\ update_in_progress' = FALSE
    /\ cached_data' = cached_data
    /\ last_update' = IF pc[t] = "ud_fail" THEN DT(now) ELSE last_update
    /\ outcome' = [outcome EXCEPT ![t] =
                      IF pc[t] = "ud_fail" THEN Outcome_(t, "failed") ELSE Outcome_(t, @)]
    /\ Goto(t, AfterUpdate(t))
    /\ op' = [op EXCEPT ![t] = AfterUpdateOp(t)]
    /\ fresh' = [fresh EXCEPT ![t] = NoneDict]
    /\ start_time' = [start_time EXCEPT ![t] = 0]
    /\ before' = [before EXCEPT ![t] = NoBefore]
    /\ UNCHANGED <<stop_polling, disk, env, st, content, ret,
                   file_before, first_call_ok, whole, slice, slept, overwritten, saves>>

\* lines 138-143: after success or failure the flag is cleared and update_data returns
UpdateFinally(t) ==
    /\ pc[t] \in {"ud_done", "ud_unsaved", "ud_fail"}
    /\ update_in_progress' = FALSE
    /\ cached_data' = IF pc[t] = "ud_fail" THEN AfterFailure(cached_data) ELSE cached_data
    /\ outcome' = [outcome EXCEPT ![t] =
                      IF pc[t] = "ud_fail" THEN Outcome_(t, "failed") ELSE Outcome_(t, @)]
    /\ Goto(t, AfterUpdate(t))
    /\ op' = [op EXCEPT ![t] = AfterUpdateOp(t)]
    /\ fresh' = [fresh EXCEPT ![t] = NoneDict]
    /\ start_time' = [start_time EXCEPT ![t] = 0]
    /\ before' = [before EXCEPT ![t] = NoBefore]
    /\ UNCHANGED <<last_update, stop_polling, disk, env, st, content, ret,
                   file_before, first_call_ok, whole, slice, slept, overwritten, saves>>

UpdateData(t) ==
    \/ UpdateCheck(t)
    \/ UpdateSet(t)
    \/ FetchNextEvent(t)
    \/ Pace(t)
    \/ FetchStandings(t)
    \/ FetchEventAfterNext(t)
    \/ Commit(t)
    \/ CommitTime(t)
    \/ SaveOpen(t)
    \/ SaveWrite(t)
    \/ SaveRename(t)
    \/ SaveExcept(t)
    \/ UpdateFinally(t)

\* a freshness test that is false at the boundary
should_update_strict(lu, t) ==
    IF lu.form = "none" THEN TRUE ELSE t - lu.ticks > PollInterval

\* should_update, lines 174-180
should_update(lu, t) ==
    IF lu.form = "none" THEN TRUE ELSE t - lu.ticks >= PollInterval

(***************************************************************************)
(* The public operations, called by the request threads.                   *)
(***************************************************************************)
\* an empty dataset without the error entry
ErrorSnapshotUnflagged(t) ==
    Dict(None, EmptyStandings, None, DT(t), NoDuration, Missing)

\* what get_data returns when there is still no data, lines 155-161
ErrorSnapshot(t) ==
    Dict(None, EmptyStandings, None, DT(t), NoDuration, "Unable to fetch F1 data")

\* a get_data that also refreshes data that is due
GetDataCallStale(t, limit) ==
    /\ pc[t] = "idle"
    /\ calls < limit
    /\ calls' = calls + 1
    /\ op' = [op EXCEPT ![t] = "get_data"]
    /\ Goto(t, IF cached_data.kind = "none" \/ should_update(last_update, now)
               THEN "ud_check" ELSE "gd_check")
    /\ UNCHANGED <<fields, disk, now, provider, st, locals, ret, history>>

\* get_data, lines 145-150: the first test of cached_data, in a run of at most
\* limit API calls
GetDataCall(t, limit) ==
    /\ pc[t] = "idle"
    /\ calls < limit
    /\ calls' = calls + 1
    /\ op' = [op EXCEPT ![t] = "get_data"]
    /\ Goto(t, IF cached_data.kind = "none" THEN "ud_check" ELSE "gd_check")
    /\ UNCHANGED <<fields, disk, now, provider, st, locals, ret, history>>

\* a second test that waits for the refresh in flight
GetDataCheckWaiting(t) ==
    /\ pc[t] = "gd_check"
    /\ ~update_in_progress
    /\ IF cached_data.kind = "none"
       THEN /\ ret' = [ret EXCEPT ![t] = Returned(ErrorSnapshot(now), FALSE)]
            /\ Goto(t, "gd_return")
       ELSE /\ ret' = ret
            /\ Goto(t, "gd_copy")
    /\ UNCHANGED <<fields, disk, env, st, op, locals, history>>

\* get_data, lines 153-161: the second test, with the return of the empty dataset
GetDataCheck(t) ==
    /\ pc[t] = "gd_check"
    /\ IF cached_data.kind = "none"
       THEN /\ ret' = [ret EXCEPT ![t] = Returned(ErrorSnapshot(now), FALSE)]
            /\ Goto(t, "gd_return")
       ELSE /\ ret' = ret
            /\ Goto(t, "gd_copy")
    /\ UNCHANGED <<fields, disk, env, st, op, locals, history>>

\* lines 164-170: the copy of the dict, with its last_updated made a datetime
Copied(d, lu, t) ==
    IF IsStr(d.last_updated)
    THEN [d EXCEPT !.last_updated = fromisoformat(d.last_updated)]
    ELSE IF d.last_updated.form = "missing"
    THEN [d EXCEPT !.last_updated = IF lu.form = "none" THEN DT(t) ELSE lu]
    ELSE d

\* get_data, lines 164-172
GetDataCopy(t) ==
    /\ pc[t] = "gd_copy"
    /\ ret' = [ret EXCEPT ![t] = Copied(copy(cached_data), last_update, now)]
    /\ Goto(t, "gd_return")
    /\ UNCHANGED <<fields, disk, env, st, op, locals, history>>

GetData(t) == GetDataCall(t, MaxCalls)

\* WebDisplay.dashboard, src/src/display/__init__.py line 36: the route sets
\* last_updated in the dict it got from get_data
DashboardOverwrite(t) ==
    /\ pc[t] = "gd_return"
    /\ ret' = [ret EXCEPT ![t] = [@ EXCEPT !.last_updated = DT(now)]]
    /\ cached_data' = IF ret[t].alias THEN [cached_data EXCEPT !.last_updated = DT(now)]
                                       ELSE cached_data
    /\ overwritten' = DT(now)
    /\ Goto(t, "rendered")
    /\ UNCHANGED <<last_update, update_in_progress, stop_polling, disk, env, st, op, locals,
                   before, file_before, outcome, first_call_ok, whole, slept, saves>>

\* the caller has the returned dict; the request is over
GetDataReturn(t) ==
    /\ pc[t] \in {"gd_return", "rendered"}
    /\ ret' = [ret EXCEPT ![t] = Returned(NoneDict, FALSE)]
    /\ outcome' = [outcome EXCEPT ![t] = "none"]
    /\ op' = [op EXCEPT ![t] = "none"]
    /\ Goto(t, "idle")
    /\ UNCHANGED <<fields, disk, env, st, locals, before, file_before, first_call_ok, whole, slept, overwritten, saves>>

\* a force_update that refreshes only data that is due
ForceUpdateIfDue(t) ==
    /\ pc[t] = "idle"
    /\ calls < MaxCalls
    /\ calls' = calls + 1
    /\ op' = [op EXCEPT ![t] = "force_update"]
    /\ Goto(t, IF should_update(last_update, now) THEN "ud_check" ELSE "ud_done")
    /\ UNCHANGED <<fields, disk, now, provider, st, locals, ret, history>>

\* force_update, lines 214-217
ForceUpdate(t) ==
    /\ pc[t] = "idle"
    /\ calls < MaxCalls
    /\ calls' = calls + 1
    /\ op' = [op EXCEPT ![t] = "force_update"]
    /\ Goto(t, "ud_check")
    /\ UNCHANGED <<fields, disk, now, provider, st, locals, ret, history>>

\* a stop that takes the in-flight flag away from the running refresh
StopAborting(t) ==
    /\ pc[t] = "idle"
    /\ calls < MaxCalls
    /\ calls' = calls + 1
    /\ stop_polling' = TRUE
    /\ update_in_progress' = FALSE
    /\ op' = [op EXCEPT ![t] = "stop"]
    /\ Goto(t, "join")
    /\ UNCHANGED <<cached_data, last_update, disk, now, provider, st, locals, ret, history>>

\* stop, line 210: the flag is set
Stop(t) ==
    /\ pc[t] = "idle"
    /\ calls < MaxCalls
    /\ calls' = calls + 1
    /\ stop_polling' = TRUE
    /\ op' = [op EXCEPT ![t] = "stop"]
    /\ Goto(t, "join")
    /\ UNCHANGED <<cached_data, last_update, update_in_progress, disk, now, provider, st,
                   locals, ret, history>>

\* stop, lines 211-212: the polling thread is found dead, or join(timeout=5) ends
\* because it has exited or because the 5 seconds are over
StopReturn(t) ==
    /\ pc[t] = "join"
    /\ op' = [op EXCEPT ![t] = "none"]
    /\ Goto(t, "idle")
    /\ UNCHANGED <<fields, disk, env, st, locals, ret, history>>

\* a status call that starts a refresh when the data is due
GetCacheStatusRefreshing(t) ==
    /\ pc[t] = "idle"
    /\ calls < MaxCalls
    /\ calls' = calls + 1
    /\ op' = [op EXCEPT ![t] = "get_cache_status"]
    /\ Goto(t, IF should_update(last_update, now) THEN "ud_check" ELSE "st_return")
    /\ UNCHANGED <<fields, disk, now, provider, st, locals, ret, history>>

\* get_cache_status, lines 219-227: the fields and the clock are read
GetCacheStatus(t) ==
    /\ pc[t] = "idle"
    /\ calls < MaxCalls
    /\ calls' = calls + 1
    /\ op' = [op EXCEPT ![t] = "get_cache_status"]
    /\ Goto(t, "st_return")
    /\ UNCHANGED <<fields, disk, now, provider, st, locals, ret, history>>

\* get_cache_status returns the dict it has built
StatusReturn(t) ==
    /\ pc[t] = "st_return"
    /\ op' = [op EXCEPT ![t] = "none"]
    /\ Goto(t, "idle")
    /\ UNCHANGED <<fields, disk, env, st, locals, ret, history>>

(***************************************************************************)
(* _polling_loop, run by the polling thread.                               *)
(***************************************************************************)
\* one more sleep has ended; it counts when stop_polling was set by then
Slept(n) == IF stop_polling /\ n < 2 THEN n + 1 ELSE n

\* a polling thread that goes from the initial sleep straight to the freshness test
SchedGraceNoTest ==
    /\ pc[Sched] = "grace"
    /\ Goto(Sched, "due")
    /\ slept' = Slept(slept)
    /\ UNCHANGED <<fields, disk, env, st, op, locals, ret, before, file_before, outcome,
                   first_call_ok, whole, overwritten, saves>>

\* line 187: the initial sleep is over
SchedGrace ==
    /\ pc[Sched] = "grace"
    /\ Goto(Sched, "loop")
    /\ slept' = Slept(slept)
    /\ UNCHANGED <<fields, disk, env, st, op, locals, ret, before, file_before, outcome,
                   first_call_ok, whole, overwritten, saves>>

\* a loop that never tests the flag
SchedLoopForever ==
    /\ pc[Sched] = "loop"
    /\ Goto(Sched, "due")
    /\ UNCHANGED <<fields, disk, env, st, op, locals, ret, history>>

\* line 189: while not self.stop_polling
SchedLoop ==
    /\ pc[Sched] = "loop"
    /\ Goto(Sched, IF stop_polling THEN "exited" ELSE "due")
    /\ UNCHANGED <<fields, disk, env, st, op, locals, ret, history>>

\* a loop that calls update_data in every pass
SchedDueAlways ==
    /\ pc[Sched] = "due"
    /\ Goto(Sched, "ud_check")
    /\ UNCHANGED <<fields, disk, env, st, op, locals, ret, history>>

\* lines 191-193: if self.should_update(): self.update_data()
SchedDue ==
    /\ pc[Sched] = "due"
    /\ Goto(Sched, IF should_update(last_update, now) THEN "ud_check" ELSE "sleep")
    /\ UNCHANGED <<fields, disk, env, st, op, locals, ret, history>>

\* lines 196-199: the sleep loop is left, because it ran out or because it found
\* stop_polling set.  No other thread can read the loop counter, so the number
\* of iterations the thread stays in the loop is left open here; SliceCheck and
\* SliceSleep below count them.
SchedSleep ==
    /\ pc[Sched] = "sleep"
    /\ Goto(Sched, "loop")
    /\ UNCHANGED <<fields, disk, env, st, op, locals, ret, history>>

\* range(300), line 196
SleepSlices == 300

\* a sleep loop without the test of stop_polling
SliceCheckNoBreak ==
    /\ pc[Sched] = "sleep"
    /\ IF slice = SleepSlices
       THEN /\ Goto(Sched, "loop")
            /\ slice' = 0
       ELSE /\ Goto(Sched, "sleeping")
            /\ slice' = slice
    /\ UNCHANGED <<fields, disk, env, st, op, fresh, start_time, content, ret, history>>

\* lines 196-198, one pass of the sleep loop up to the sleep: the loop has run
\* out, or it finds stop_polling set and breaks, or it goes to sleep
SliceCheck ==
    /\ pc[Sched] = "sleep"
    /\ IF slice = SleepSlices \/ stop_polling
       THEN /\ Goto(Sched, "loop")
            /\ slice' = 0
       ELSE /\ Goto(Sched, "sleeping")
            /\ slice' = slice
    /\ UNCHANGED <<fields, disk, env, st, op, fresh, start_time, content, ret, history>>

\* line 199: time.sleep(60) is over
SliceSleep ==
    /\ pc[Sched] = "sleeping"
    /\ slice' = slice + 1
    /\ slept' = Slept(slept)
    /\ Goto(Sched, "sleep")
    /\ UNCHANGED <<fields, disk, env, st, op, fresh, start_time, content, ret, before,
                   file_before, outcome, first_call_ok, whole, overwritten, saves>>

Next ==
    \/ Tick
    \/ \E t \in Threads : UpdateData(t)
    \/ \E t \in Workers : GetData(t)
    \/ \E t \in Workers : GetDataCheck(t)
    \/ \E t \in Workers : GetDataCopy(t)
    \/ \E t \in Workers : GetDataReturn(t)
    \/ \E t \in Workers : ForceUpdate(t)
    \/ \E t \in Workers : Stop(t)
    \/ \E t \in Workers : StopReturn(t)
    \/ \E t \in Workers : GetCacheStatus(t)
    \/ \E t \in Workers : StatusReturn(t)
    \/ SchedGrace
    \/ SchedLoop
    \/ SchedDue
    \/ SchedSleep

Spec == Init /\ [][Next]_vars

(***************************************************************************)
(* The polling thread with its sleep loop counted pass by pass, beside a   *)
(* request thread that calls stop.  The thread runs whenever it can: the   *)
(* sleeps end and the provider calls return.                               *)
(***************************************************************************)
SchedStep ==
    \/ UpdateData(Sched)
    \/ SchedGrace
    \/ SchedLoop
    \/ SchedDue
    \/ SliceCheck
    \/ SliceSleep

NextSched ==
    \/ Tick
    \/ UpdateData(Sched)
    \/ \E t \in Workers : Stop(t)
    \/ \E t \in Workers : StopReturn(t)
    \/ SchedGrace
    \/ SchedLoop
    \/ SchedDue
    \/ SliceCheck
    \/ SliceSleep

\* the polling thread sees of the provider only whether update_data commits, and
\* of the cache file only whether it gave a last_update
InitSched ==
    /\ Init
    /\ provider \in {"ok", "raises"}
    /\ cache_file \in {Absent, CompleteFile(Serialize(OldSnapshot), isoformat(DT(0)))}

SchedSpec == InitSched /\ [][NextSched]_vars /\ WF_vars(SchedStep)

(***************************************************************************)
(* The request threads as the routes / and /api/data of the web server,    *)
(* which call get_data again and again, beside the polling thread.         *)
(***************************************************************************)
\* get_data calls the request threads make in all
MaxGets == 2

NextFacade ==
    \/ Tick
    \/ \E t \in Threads : UpdateData(t)
    \/ \E t \in Workers : GetDataCall(t, MaxGets)
    \/ \E t \in Workers : GetDataCheck(t)
    \/ \E t \in Workers : GetDataCopy(t)
    \/ \E t \in Workers : DashboardOverwrite(t)
    \/ \E t \in Workers : GetDataReturn(t)
    \/ SchedGrace
    \/ SchedLoop
    \/ SchedDue
    \/ SchedSleep

\* the program constructed without a cache file or with a valid one
InitFacade ==
    /\ Init
    /\ provider \in {"ok", "raises"}
    /\ cache_file \in {Absent, CompleteFile(Serialize(OldSnapshot), isoformat(DT(0)))}

FacadeSpec == InitFacade /\ [][NextFacade]_vars

(***************************************************************************)
(* The call of get_current_standings, step by step.                        *)
(***************************************************************************)
\* lines 146-173: the schedule is fetched; a failure (235-239), a schedule
\* without race events (154) and a season without completed races (168) return
\* empty lists
StandingsSchedule ==
    /\ st.phase = "call"
    /\ st' = IF st.schedule # "ok" \/ st.completed_races = <<>>
             THEN [st EXCEPT !.phase = "returned"]
             ELSE [st EXCEPT !.phase = "load", !.round = 1]
    /\ UNCHANGED cache_vars

\* lines 177-208: one pass of the loop over the completed races; a race that
\* does not load is skipped
LoadRace ==
    /\ st.phase = "load"
    /\ st.round <= Len(st.completed_races)
    /\ LET race == st.completed_races[st.round]
       IN  st' = [st EXCEPT
                     !.round = @ + 1,
                     !.driver_points =
                         IF race.loaded THEN sum_points(@, race.results, "FullName") ELSE @,
                     !.constructor_points =
                         IF race.loaded THEN sum_points(@, race.results, "TeamName") ELSE @]
    /\ UNCHANGED cache_vars

\* lines 210-233: both dicts are sorted and cut, and the dict is returned
Rank ==
    /\ st.phase = "load"
    /\ st.round > Len(st.completed_races)
    /\ st' = [st EXCEPT !.phase = "returned",
                        !.drivers = standings_of(st.driver_points),
                        !.constructors = standings_of(st.constructor_points)]
    /\ UNCHANGED cache_vars

NextStandings == StandingsSchedule \/ LoadRace \/ Rank

\* the cache stands still, on an empty start, while the fetcher is called on
\* every season
InitStandings ==
    /\ InitCache
    /\ provider = "ok"
    /\ cache_file = Absent
    /\ st \in {Call("raises", <<>>), Call("no_events", <<>>)}
                 \cup {Call("ok", s) : s \in Seasons}

StandingsSpec == InitStandings /\ [][NextStandings]_vars

(***************************************************************************)
(* Properties                                                              *)
(***************************************************************************)
\* the thread is executing the provider call sequence of fetch_fresh_data
InFetch(t) == pc[t] \in {"f1", "pause1", "f2", "pause2", "f3"}
\* the thread is in update_data, past the test of the flag
InUpdate(t) == pc[t] \in {"ud_set", "f1", "pause1", "f2", "pause2", "f3", "commit", "commit_time", "s_open",
                          "s_write", "s_rename", "s_except", "ud_done", "ud_unsaved",
                          "ud_fail"}
HasData == cached_data.kind = "dict"
IsErrorSnapshot(d) ==
    /\ d.kind = "dict"
    /\ d.error # Missing
    /\ d.next_event = None
    /\ d.event_after_next = None
    /\ d.standings = EmptyStandings
\* the next step of a thread that is inside get_data
GetDataStep(t) == UpdateData(t) \/ GetDataCheck(t) \/ GetDataCopy(t) \/ GetDataReturn(t)
\* the values the provider hands out in this run
ProviderValues(outs) == {o.value : o \in {x \in outs : ~x.raised}}
\* d holds, entry for entry, what the snapshot s holds
SameEntries(d, s) ==
    /\ d.kind = s.kind
    /\ d.next_event = s.next_event
    /\ d.standings = s.standings
    /\ d.event_after_next = s.event_after_next
    /\ d.fetch_duration_minutes = s.fetch_duration_minutes
    /\ d.error = s.error
    /\ s.last_updated.form = "datetime" => d.last_updated = s.last_updated

\* C1: at most one thread is executing the provider call sequence at any moment.
C1_SingleFlight == Cardinality({t \in Threads : InFetch(t)}) <= 1

\* C2: when an update_data in which a provider call raised returns, cached_data
\* and last_update have the values they had before the call, and
\* update_in_progress is false.
C2_FailureIsolation ==
    [][\A t \in Threads :
          (pc[t] = "ud_fail" /\ pc'[t] # "ud_fail")
              => /\ cached_data' = before[t].cached_data
                 /\ last_update' = before[t].last_update
                 /\ ~update_in_progress']_vars

\* C3: a refresh cycle in which fastf1 failed inside one of the three provider
\* calls replaces neither cached_data nor last_update.
C3_FailedSubFetchAborts ==
    [][(provider \in {"down1", "down2", "down3"}) => UNCHANGED <<cached_data, last_update>>]_vars

\* C4: the dict get_data copies holds, entry for entry, one whole snapshot: the
\* one last loaded or last assembled and committed by a refresh, also while
\* refreshes are running.
C4_SnapshotAtomicity ==
    [][\A t \in Workers :
          (pc[t] = "gd_copy" /\ pc'[t] = "gd_return") => SameEntries(ret'[t], whole)]_vars

C4_Witness ==
    \E t \in Workers : \E u \in Threads :
        /\ pc[t] = "gd_return" /\ ret[t].error = Missing
        /\ pc[u] = "commit_time" /\ update_in_progress
        /\ SameEntries(ret[t], whole)
        /\ whole # load_cache(CompleteFile(Serialize(OldSnapshot), isoformat(DT(0)))).cached_data

\* C5: cached_data never goes from present to absent, and get_data returns the
\* error-flagged empty dataset only while cached_data is absent.
C5_NoRegression ==
    [][/\ HasData => cached_data'.kind = "dict"
       /\ \A t \in Workers :
             (ret'[t] # ret[t] /\ ret'[t].error # Missing) => ~HasData]_vars

C5_Witness ==
    \E t \in Threads : \E u \in Workers :
        /\ pc[t] = "ud_fail" /\ HasData
        /\ pc[u] = "gd_return" /\ ret[u].error = Missing

\* C6 as stated: a get_data that finds cached_data absent while every provider
\* call succeeds runs a refresh and returns a snapshot with no error set.
C6_FirstCallBlocksAlways ==
    \A t \in Workers :
        (pc[t] = "gd_return" /\ outcome[t] # "none" /\ provider = "ok")
            => (outcome[t] = "refreshed" /\ ret[t].error = Missing)

\* C6 as amended: a get_data that finds cached_data absent, finds no refresh in
\* flight, and whose own three provider calls return, returns with no error set
\* a snapshot holding the provider's three values, and cached_data is present.
C6_FirstCallBlocks ==
    \A t \in Workers :
        (pc[t] = "gd_return" /\ outcome[t] = "refreshed")
            => /\ ret[t].kind = "dict"
               /\ ret[t].error = Missing
               /\ ret[t].next_event \in ProviderValues(get_next_event(provider))
               /\ ret[t].standings \in ProviderValues(get_current_standings(provider))
               /\ ret[t].event_after_next \in ProviderValues(get_event_after_next(provider))
               /\ HasData

C6_Witness ==
    \E t \in Workers :
        /\ pc[t] = "gd_return" /\ outcome[t] = "refreshed"
        /\ ret[t].error = Missing /\ ret[t].next_event = "evA"
        /\ HasData

\* C7: while cached_data is absent and every get_next_event call has raised,
\* cached_data stays absent, a thread inside get_data always has its next step
\* to take, and what get_data returns is the error-flagged dataset with no
\* events and empty standings.
C7_NoDataEver ==
    /\ [](\A t \in Workers :
             (~first_call_ok /\ ~HasData /\ pc[t] = "gd_return") => IsErrorSnapshot(ret[t]))
    /\ [](\A t \in Workers :
             (~first_call_ok /\ ~HasData /\ op[t] = "get_data") => ENABLED GetDataStep(t))
    /\ [][(~first_call_ok' /\ ~HasData) => cached_data'.kind = "none"]_vars

C7_Witness ==
    \E t \in Workers :
        /\ pc[t] = "gd_return" /\ outcome[t] = "failed"
        /\ ~first_call_ok /\ ~HasData
        /\ IsErrorSnapshot(ret[t])

\* C8: every write to the cache file leaves one complete document there.
C8_NeverPartial == [][cache_file' # cache_file => IsComplete(cache_file')]_vars

\* C9: while a save_cache is between the writing of the temporary file and the
\* rename, and when it has failed, the cache file is the one it found.
C9_CrashSafety ==
    \A t \in Threads :
        pc[t] \in {"s_write", "s_rename", "s_except"} => cache_file = file_before[t]

\* C10: after a save, load_cache on the cache file gives the snapshot and the
\* last_update that the cache holds.
C10_RoundTrip ==
    [][\A t \in Threads :
          (pc[t] = "s_rename" /\ pc'[t] = "ud_done")
              => load_cache(cache_file') = Loaded(cached_data', last_update')]_vars

\* the state right after __init__: no thread has taken a step yet
AtConstruction ==
    /\ pc[Sched] = "grace"
    /\ \A t \in Workers : pc[t] = "idle"
    /\ calls = 0
\* the file does not parse, or one of its two timestamps is no ISO timestamp
InvalidFile(f) ==
    \/ ~IsComplete(f)
    \/ f.last_update.form \in {"badstr", "emptystr"}
    \/ f.data.kind = "dict" /\ f.data.last_updated.form \in {"badstr", "emptystr"}

\* C11: when an update_data whose save_cache failed returns, cached_data is the
\* snapshot committed last, last_update is a time taken during the call,
\* update_in_progress has been cleared, and the caller goes on as after any
\* other update_data.
C11_BestEffortPersistence ==
    [][\A t \in Threads :
          (pc[t] = "ud_unsaved" /\ pc'[t] # "ud_unsaved")
              => /\ cached_data' = whole' /\ HasData'
                 /\ last_update'.form = "datetime"
                 /\ last_update'.ticks >= start_time[t]
                 /\ ~update_in_progress'
                 /\ pc'[t] = AfterUpdate(t)]_vars

C11_Witness ==
    \E t \in Threads :
        /\ pc[t] = "ud_unsaved"
        /\ ~IsComplete(cache_file)
        /\ HasData /\ cached_data = whole
        /\ last_update.form = "datetime"

\* C12: after construction from a cache file that does not parse or that
\* carries an invalid timestamp, cached_data and last_update are both absent.
C12_LoadNeverHalfSet ==
    (AtConstruction /\ InvalidFile(cache_file))
        => (cached_data.kind = "none" /\ last_update.form = "none")

\* C13: the polling thread's freshness test sends it into update_data exactly
\* when last_update is absent or now - last_update >= poll_interval, and the
\* test changes neither the fields of the cache nor the files.
C13_FreshnessPolicy ==
    [][(pc[Sched] = "due" /\ pc'[Sched] # "due")
          => /\ pc'[Sched] = "ud_check"
                  <=> (last_update.form = "none" \/ now - last_update.ticks >= PollInterval)
             /\ pc'[Sched] \in {"ud_check", "sleep"}
             /\ UNCHANGED <<fields, disk>>]_vars

C13_Witness ==
    /\ pc[Sched] = "ud_check"
    /\ last_update.form = "datetime"
    /\ now - last_update.ticks = PollInterval

\* C14: a thread in get_cache_status never is in a provider call or in any
\* other part of update_data, and its steps change neither the fields of the
\* cache nor the files, also while a refresh is in flight.
C14_StatusReadOnly ==
    /\ [](\A t \in Workers : op[t] = "get_cache_status" => pc[t] = "st_return")
    /\ [][\A t \in Workers :
             (op'[t] = "get_cache_status" \/ op[t] = "get_cache_status") /\ pc'[t] # pc[t]
                 => UNCHANGED <<fields, disk>>]_vars

C14_Witness ==
    \E t \in Workers : \E u \in Threads :
        /\ op[t] = "get_cache_status" /\ pc[t] = "st_return"
        /\ InFetch(u) /\ update_in_progress

\* C15: an update_data that finds update_in_progress set returns at once: the
\* thread goes on after the call without a provider call or a save, and the
\* fields of the cache, the flag among them, and the files are as they were.
C15_SkipIsNoOp ==
    [][\A t \in Threads :
          (pc[t] = "ud_check" /\ update_in_progress /\ pc'[t] # "ud_check")
              => /\ UNCHANGED <<fields, disk>>
                 /\ pc'[t] = AfterUpdate(t)]_vars

C15_Witness ==
    \E t \in Workers : \E u \in Threads :
        /\ outcome[t] = "skipped" /\ pc[t] = "gd_check"
        /\ InUpdate(u) /\ update_in_progress

\* C16: force_update goes into update_data; when it finds no refresh in flight
\* it sets the flag and runs the provider call sequence once, whether or not
\* the data is due, and it returns only from the end of update_data.
C16_ForceUpdateRefreshes ==
    [][\A t \in Workers :
          /\ (op[t] = "none" /\ op'[t] = "force_update") => pc'[t] = "ud_check"
          /\ (op[t] = "force_update" /\ pc[t] = "ud_check" /\ ~update_in_progress
                  /\ pc'[t] # pc[t]) => pc'[t] = "ud_set"
          /\ (op[t] = "force_update" /\ pc'[t] = "f1" /\ pc[t] # "f1") => pc[t] = "ud_set"
          /\ (op[t] = "force_update" /\ op'[t] = "none")
                  => \/ pc[t] \in {"ud_done", "ud_unsaved", "ud_fail"}
                     \/ pc[t] = "ud_check" /\ update_in_progress]_vars

C16_Witness ==
    \E t \in Workers :
        /\ op[t] = "force_update" /\ InFetch(t)
        /\ ~should_update(last_update, now)

\* C17: once stop_polling is set the polling thread, running whenever it can,
\* reaches the end of _polling_loop; it leaves the loop only at the test of
\* line 189, never from inside update_data, with the flag set.
C17_SchedulerTermination ==
    /\ stop_polling ~> pc[Sched] = "exited"
    /\ [][(pc'[Sched] = "exited" /\ pc[Sched] # "exited")
             => (pc[Sched] = "loop" /\ stop_polling /\ ~InUpdate(Sched))]_vars
    /\ [][(InUpdate(Sched) /\ pc'[Sched] # pc[Sched])
             => (InUpdate(Sched)' \/ pc'[Sched] = "sleep")]_vars

C17_Witness ==
    /\ pc[Sched] = "exited" /\ stop_polling
    /\ slept = 0
    /\ HasData /\ IsComplete(cache_file)
    /\ whole # load_cache(CompleteFile(Serialize(OldSnapshot), isoformat(DT(0)))).cached_data

\* C18: after stop_polling is set the polling thread ends at most one sleep,
\* the one it is in, and goes into no further sleep before its loop exits.
C18_ShutdownLatency ==
    /\ [](slept <= 1)
    /\ [][(stop_polling /\ pc[Sched] # "sleeping") => pc'[Sched] # "sleeping"]_vars

C18_Witness ==
    /\ pc[Sched] = "exited" /\ stop_polling
    /\ slept = 1

\* C19: stop sets stop_polling and changes no other field and no file; it
\* takes no other thread out of what it is doing; once the flag is set its
\* return is always possible, whatever the polling thread is doing.
C19_StopReturns ==
    /\ [](\A t \in Workers : op[t] = "stop" => (pc[t] = "join" /\ ENABLED StopReturn(t)))
    /\ [][\A t \in Workers :
             /\ (op[t] = "none" /\ op'[t] = "stop")
                    => /\ stop_polling'
                       /\ UNCHANGED <<cached_data, last_update, update_in_progress, disk>>
                       /\ \A u \in Threads \ {t} : pc'[u] = pc[u]
             /\ (op[t] = "stop" /\ op'[t] = "none")
                    => /\ UNCHANGED <<fields, disk>>
                       /\ pc'[t] = "idle"
                       /\ \A u \in Threads \ {t} : pc'[u] = pc[u]]_vars

C19_Witness ==
    /\ stop_polling
    /\ \A t \in Workers : pc[t] = "idle" /\ op[t] = "none"
    /\ InFetch(Sched) /\ update_in_progress

\* C20: in a refresh cycle the first provider call is followed, after the pause,
\* by the second and the second by the third, however they end.
C20_SubFetchIndependence ==
    [][\A t \in Threads :
          /\ (pc[t] = "f1" /\ pc'[t] # "f1") => pc'[t] = "pause1"
          /\ (pc[t] = "pause1" /\ pc'[t] # "pause1") => pc'[t] = "f2"
          /\ (pc[t] = "f2" /\ pc'[t] # "f2") => pc'[t] = "pause2"
          /\ (pc[t] = "pause2" /\ pc'[t] # "pause2") => pc'[t] = "f3"]_vars

\* the places of _polling_loop outside update_data, lines 187-199
LoopPlaces == {"grace", "loop", "due", "sleep", "sleeping", "exited"}

\* C21: a provider call that raises and a save that fails leave the thread inside
\* update_data; update_data ends only by returning to its caller, which goes on
\* with its next statement; a thread in get_data or force_update always has a
\* next step; the polling thread is never anywhere but in the body of its loop.
C21_NoFailurePropagates ==
    /\ [][\A t \in Threads :
             /\ (pc[t] \in {"f1", "f2", "f3", "s_open", "s_write", "s_rename", "s_except"}
                     /\ pc'[t] # pc[t]) => InUpdate(t)'
             /\ (InUpdate(t) /\ ~InUpdate(t)')
                    => (pc'[t] = AfterUpdate(t) /\ op'[t] = AfterUpdateOp(t))]_vars
    /\ [](\A t \in Workers :
             op[t] \in {"get_data", "force_update"} => ENABLED GetDataStep(t))
    /\ [](pc[Sched] \in LoopPlaces \/ pc[Sched] = "ud_check" \/ InUpdate(Sched))

C21_Witness ==
    /\ pc[Sched] = "sleep" /\ provider = "raises"
    /\ ~HasData /\ last_update.form = "none"
    /\ calls = 0 /\ \A t \in Workers : pc[t] = "idle"

\* C22: what get_data returns is a dict that has the next_event, standings,
\* event_after_next and last_updated entries, last_updated being a datetime.
C22_AlwaysSnapshotShaped ==
    \A t \in Workers :
        pc[t] = "gd_return"
            => /\ ret[t].kind = "dict"
               /\ ret[t].next_event # Missing
               /\ ret[t].standings # Missing
               /\ ret[t].event_after_next # Missing
               /\ ret[t].last_updated.form = "datetime"

\* C23: cached_data and last_update change only while update_in_progress is set
\* and exactly one thread, the writer, is inside update_data past the flag test.
C23_SingleWriter ==
    [][(cached_data' # cached_data \/ last_update' # last_update)
          => /\ update_in_progress
             /\ Cardinality({t \in Threads : InUpdate(t)}) = 1]_vars

\* C24: when a refresh has committed cached_data and last_update, last_update is
\* the last_updated timestamp of the snapshot in cached_data.
C24_CommitAgrees ==
    [][\A t \in Threads :
          (pc[t] = "commit_time" /\ pc'[t] # "commit_time")
              => last_update' = cached_data'.last_updated]_vars

\* C26: in a refresh cycle the provider calls are begun in the order next event,
\* standings, event after next, each later call only from the pause that follows
\* the return of the call before it, whose value the cycle then holds.
C26_SequentialPaced ==
    /\ [][\A t \in Threads :
             /\ (pc'[t] = "f1" /\ pc[t] # "f1") => pc[t] = "ud_set"
             /\ (pc'[t] = "pause1" /\ pc[t] # "pause1") => pc[t] = "f1"
             /\ (pc'[t] = "f2" /\ pc[t] # "f2") => pc[t] = "pause1"
             /\ (pc'[t] = "pause2" /\ pc[t] # "pause2") => pc[t] = "f2"
             /\ (pc'[t] = "f3" /\ pc[t] # "f3") => pc[t] = "pause2"
             /\ (pc'[t] = "commit" /\ pc[t] # "commit") => pc[t] = "f3"]_vars
    /\ [](\A t \in Threads :
             /\ pc[t] \in {"pause1", "f2", "pause2", "f3"}
                    => fresh[t].next_event \in ProviderValues(get_next_event(provider))
             /\ pc[t] \in {"pause2", "f3"}
                    => fresh[t].standings \in ProviderValues(get_current_standings(provider)))

C26_Witness ==
    \E t \in Threads :
        /\ pc[t] = "commit"
        /\ fresh[t].next_event = "evA"
        /\ fresh[t].standings = "top3"
        /\ fresh[t].event_after_next = "evB"

\* C25: a failed refresh of the polling thread leaves last_update as it was, so
\* the data is due after it as before it; unless stop_polling is set, the thread
\* comes to the provider calls again; and in a run in which the refreshes stop
\* failing, a failed refresh is followed by a commit unless stop_polling is set.
C25_RetryAfterFailure ==
    /\ [](pc[Sched] = "ud_fail"
             => (last_update = before[Sched].last_update /\ should_update(last_update, now)))
    /\ [][(pc[Sched] = "ud_fail" /\ pc'[Sched] # "ud_fail")
             => (last_update' = last_update /\ should_update(last_update', now'))]_vars
    /\ (pc[Sched] = "ud_fail") ~> (pc[Sched] = "f1" \/ stop_polling)
    /\ \/ []<>(pc[Sched] = "ud_fail")
       \/ [](pc[Sched] = "ud_fail" => <>(stop_polling \/ pc[Sched] = "commit_time"))

C25_Witness ==
    /\ pc[Sched] = "f1" /\ ~stop_polling
    /\ first_call_ok /\ ~HasData
    /\ provider = "raises"

\* C27: the polling thread enters update_data only from the freshness test of a
\* pass it began with stop_polling unset, and only when the test finds the data
\* due; when the data is not due it goes to the sleep loop with the fields and
\* the files as they were, and from there only back to the loop test.
C27_SchedulerGate ==
    [][/\ (pc'[Sched] = "ud_check" /\ pc[Sched] # "ud_check")
              => (pc[Sched] = "due" /\ should_update(last_update, now))
       /\ (pc'[Sched] = "due" /\ pc[Sched] # "due")
              => (pc[Sched] = "loop" /\ ~stop_polling)
       /\ (pc[Sched] = "due" /\ pc'[Sched] # "due" /\ ~should_update(last_update, now))
              => (pc'[Sched] = "sleep" /\ UNCHANGED <<fields, disk>>)
       /\ (pc[Sched] \in {"sleep", "sleeping"} /\ pc'[Sched] # pc[Sched])
              => pc'[Sched] \in {"sleep", "sleeping", "loop"}]_vars

C27_Witness ==
    /\ pc[Sched] = "sleep" /\ calls = 0
    /\ HasData /\ cached_data = load_cache(cache_file).cached_data
    /\ last_update = DT(0) /\ now = 0
    /\ ~should_update(last_update, now)

\* C28: between two freshness tests of the polling thread at most five sleeps
\* of the sleep loop pass.
C28_RecheckEveryFiveMinutes == slice <= 5

\* the thread is in save_cache
InSave(t) == pc[t] \in {"s_open", "s_write", "s_rename", "s_except"}

\* C29: a refresh goes into save_cache once, right after the assignments of
\* cached_data and last_update, and from save_cache only to the end of
\* update_data; a refresh that failed goes to the end of update_data without
\* save_cache; the files change only by the steps of a thread in save_cache.
C29_SaveOncePerRefresh ==
    [][/\ \A t \in Threads :
             /\ (pc[t] = "commit" /\ pc'[t] # "commit")
                    => (pc'[t] = "commit_time" /\ cached_data'.kind = "dict")
             /\ (pc[t] = "commit_time" /\ pc'[t] # "commit_time")
                    => (pc'[t] = "s_open" /\ last_update' = DT(now))
             /\ (pc'[t] = "s_open" /\ pc[t] # "s_open") => pc[t] = "commit_time"
             /\ (InSave(t) /\ pc'[t] # pc[t])
                    => (InSave(t)' \/ pc'[t] \in {"ud_done", "ud_unsaved"})
             /\ (pc'[t] \in {"ud_done", "ud_unsaved"} /\ pc'[t] # pc[t]) => InSave(t)
             /\ (pc[t] \in {"ud_done", "ud_unsaved", "ud_fail"} /\ pc'[t] # pc[t])
                    => pc'[t] = AfterUpdate(t)
             /\ (pc'[t] = "ud_fail" /\ pc[t] # "ud_fail") => pc[t] \in {"f1", "f2", "f3"}
       /\ (cache_file' # cache_file \/ temp_file' # temp_file)
              => \E t \in Threads : pc[t] \in {"s_open", "s_write", "s_rename"}]_vars

C29_Witness ==
    \E t \in Threads :
        /\ pc[t] = "s_open"
        /\ temp_file # Absent
        /\ \A u \in Threads : fd[u] = "closed"
        /\ \A u \in Threads \ {t} : ~InUpdate(u) /\ pc[u] # "ud_check"

\* C30: cached_data changes only by a refresh putting the dict it has assembled
\* in place of the one before; the write of a caller to the dict it got from
\* get_data leaves cached_data as it is; and what get_data copies, also after
\* such a write, holds entry for entry the snapshot last loaded or committed.
C30_SnapshotImmutable ==
    /\ [][cached_data' # cached_data
             => \E t \in Threads :
                   /\ pc[t] = "commit"
                   /\ cached_data' = [fresh[t] EXCEPT
                                         !.fetch_duration_minutes = now - start_time[t]]
                   /\ whole' = cached_data']_vars
    /\ [][\A t \in Workers :
             (pc[t] = "gd_return" /\ pc'[t] = "rendered")
                 => (cached_data' = cached_data /\ ret'[t].last_updated = DT(now))]_vars
    /\ [][\A t \in Workers :
             (pc[t] = "gd_copy" /\ pc'[t] = "gd_return") => SameEntries(ret'[t], whole)]_vars

C30_Witness ==
    \E t \in Workers :
        /\ pc[t] = "gd_return" /\ calls = MaxGets
        /\ overwritten.form = "datetime"
        /\ ret[t].error = Missing
        /\ ret[t].last_updated # overwritten
        /\ SameEntries(ret[t], whole)

\* C31: while the polling thread is in its initial sleep it tests nothing and
\* changes nothing, and the sleep ends at the loop test of line 189; when
\* stop_polling is set during the initial sleep the thread is from then on only
\* in that sleep, at the loop test or out of the loop, never in update_data.
C31_GracePeriod ==
    /\ [][(pc[Sched] = "grace" /\ pc'[Sched] # "grace")
             => (pc'[Sched] = "loop" /\ UNCHANGED <<fields, disk>>)]_vars
    /\ [][(pc'[Sched] \in {"due", "ud_check"} /\ pc'[Sched] # pc[Sched])
             => pc[Sched] \in {"loop", "due"}]_vars
    /\ []((pc[Sched] = "grace" /\ stop_polling)
             => [](pc[Sched] \in {"grace", "loop", "exited"}))

C31_Witness ==
    /\ pc[Sched] = "exited" /\ stop_polling
    /\ slept = 1
    /\ provider = "ok" /\ ~HasData /\ last_update.form = "none"

\* C33 as stated: a get_data whose update_data call found a refresh in flight
\* returns the error-flagged empty dataset.
C33_SkippedReturnsError ==
    \A t \in Workers :
        (pc[t] = "gd_return" /\ outcome[t] = "skipped") => IsErrorSnapshot(ret[t])

\* C33, amended: a get_data on an empty cache whose update_data call finds a
\* refresh in flight changes nothing in that call and goes on to its second test
\* of cached_data, which it can always take (it does not wait for the refresh);
\* when cached_data is still absent at that test it returns the error-flagged empty
\* dataset, and when the refresh in flight has stored its data by then it returns
\* that data.
C33_SkipDoesNotWait ==
    /\ [][\A t \in Workers :
             (pc[t] = "ud_check" /\ op[t] = "get_data" /\ update_in_progress
                  /\ pc'[t] # pc[t])
                 => (pc'[t] = "gd_check" /\ UNCHANGED <<fields, disk>>)]_vars
    /\ [](\A t \in Workers : pc[t] = "gd_check" => ENABLED GetDataCheck(t))
    /\ [][\A t \in Workers :
             (pc[t] = "gd_check" /\ outcome[t] = "skipped" /\ pc'[t] # pc[t])
                 => IF HasData
                    THEN pc'[t] = "gd_copy"
                    ELSE /\ pc'[t] = "gd_return"
                         /\ IsErrorSnapshot(ret'[t])
                         /\ UNCHANGED <<fields, disk>>]_vars
    /\ [][\A t \in Workers :
             (pc[t] = "gd_copy" /\ outcome[t] = "skipped" /\ pc'[t] # pc[t])
                 => /\ pc'[t] = "gd_return"
                    /\ ~IsErrorSnapshot(ret'[t])
                    /\ SameEntries(ret'[t], whole)]_vars

C33_Witness ==
    \E t \in Workers :
        /\ pc[t] = "gd_return" /\ outcome[t] = "skipped"
        /\ IsErrorSnapshot(ret[t])
        /\ HasData /\ ~update_in_progress

\* C34: update_in_progress is true exactly when some thread is inside update_data
\* between the setting of the flag (line 122) and the finally clause (line 143).
C34_FlagAccurate ==
    update_in_progress <=> \E t \in Threads : InUpdate(t) /\ pc[t] # "ud_set"

C37_StatusConsistent ==
    [][\A t \in Workers :
          (op[t] = "none" /\ op'[t] = "get_cache_status")
              => (HasData <=> last_update.form = "datetime")]_vars

\* C38: a get_data called while cached_data is present goes straight to the copy
\* and the return: it never enters update_data, so it makes no provider call,
\* and none of its steps changes cached_data, last_update, the flags or the
\* files, whether or not the data is due for a refresh.
C38_GetDataReadsOnly ==
    /\ [][\A t \in Workers :
             (op[t] = "none" /\ op'[t] = "get_data" /\ HasData)
                 => (pc'[t] = "gd_check" /\ UNCHANGED <<fields, disk>>)]_vars
    /\ [][\A t \in Workers :
             (op[t] = "get_data" /\ pc[t] \in {"gd_check", "gd_copy", "gd_return"}
                  /\ HasData /\ pc'[t] # pc[t])
                 => (pc'[t] \in {"gd_copy", "gd_return", "idle"}
                        /\ UNCHANGED <<fields, disk>>)]_vars

C38_Witness ==
    \E t \in Workers :
        /\ pc[t] = "gd_return" /\ outcome[t] = "none"
        /\ ret[t].error = Missing /\ SameEntries(ret[t], whole)
        /\ should_update(last_update, now)
        /\ \A u \in Threads : ~InUpdate(u)

\* C39: when stop_polling is set and no thread is inside stop any more (every
\* stop that was called has returned), the polling thread makes no step that
\* enters update_data.
C39_NoUpdateAfterStop ==
    [][(stop_polling /\ \A t \in Workers : op[t] # "stop")
          => ~(pc[Sched] # "ud_check" /\ pc'[Sched] = "ud_check")]_vars

\* C35: whenever no thread is inside update_data, this run has put a file at the
\* cache path, and no save has failed since cached_data was last assigned, the
\* dataset the cache file holds is the one in cached_data.
C35_DiskAgreesAtRest ==
    ((\A t \in Threads : ~InUpdate(t)) /\ ~update_in_progress
          /\ saves.written /\ ~saves.failed)
        => load_cache(cache_file).cached_data = cached_data

\* the total of a name over the rows of one table
RECURSIVE RowsTotal(_, _, _)
RowsTotal(rows, key, n) ==
    IF rows = <<>> THEN 0
    ELSE (IF Head(rows)[key] = n /\ Head(rows).Points # NaN THEN Head(rows).Points ELSE 0)
             + RowsTotal(Tail(rows), key, n)
\* the total of a name over the races that loaded
RECURSIVE Total(_, _, _)
Total(races, key, n) ==
    IF races = <<>> THEN 0
    ELSE (IF Head(races).loaded THEN RowsTotal(Head(races).results, key, n) ELSE 0)
             + Total(Tail(races), key, n)
\* the names in the tables of the races that loaded
Names(races, key) ==
    {races[i].results[k][key] :
        i \in {x \in 1..Len(races) : races[x].loaded /\ races[x].results # <<>>}, k \in 1..5}
\* list holds at most three entries, the names with the highest totals in falling
\* order of total, each with the integer part of its total
IsStanding(list, races, key) ==
    LET names == Names(races, key)
        T(n) == Total(races, key, n)
    IN  /\ Len(list) = IF Cardinality(names) < 3 THEN Cardinality(names) ELSE 3
        /\ \A k \in 1..Len(list) :
              /\ list[k].name \in names
              /\ list[k].points = T(list[k].name) \div 2
              /\ \A j \in 1..Len(list) : list[j].name = list[k].name => j = k
              /\ k < Len(list) => T(list[k].name) >= T(list[k + 1].name)
              /\ \A n \in names :
                    (\A j \in 1..Len(list) : list[j].name # n) => T(n) <= T(list[k].name)

\* C32: a call of get_current_standings returns; what it returns holds, for the
\* drivers and for the constructors, at most 3 entries in falling order of total,
\* the total of a name being the sum of its points over the completed races whose
\* results loaded; a race that did not load adds nothing and the other races count.
C32_Standings ==
    /\ st.phase \in {"idle", "call", "load", "returned"}
    /\ st.phase = "returned"
          => /\ IsStanding(st.drivers, st.completed_races, "FullName")
             /\ IsStanding(st.constructors, st.completed_races, "TeamName")
    /\ st.phase # "returned" => (st.drivers = <<>> /\ st.constructors = <<>>)

C32_Witness ==
    /\ st.phase = "returned"
    /\ \E i, j \in 1..Len(st.completed_races) :
          /\ ~st.completed_races[i].loaded
          /\ st.completed_races[j].loaded /\ st.completed_races[j].results # <<>>
    /\ Len(st.drivers) = 3 /\ Len(st.constructors) = 3
    /\ st.drivers[1].points > st.drivers[2].points
    /\ st.constructors[1].name = "T1"
    /\ st.constructors[1].points
          # Total(st.completed_races, "FullName", st.drivers[1].name) \div 2

====
